---- MODULE Spec2Model ----
(***************************************************************************)
(* Recurring-event date generation (src/src/utils/dateUtils.ts).           *)
(*                                                                         *)
(* A JavaScript Date is modelled by its time value counted in whole days   *)
(* since 1970-01-01 (all dates of one call carry the same time of day, as  *)
(* the dates built by `new Date('YYYY-MM-DD')` do, and the local time zone *)
(* is UTC).  The getters and setters of Date are computed from that time   *)
(* value exactly as ECMAScript's MakeDay / YearFromTime / MonthFromTime /  *)
(* DateFromTime do, including the overflow of an out-of-range day or month *)
(* into the following month or year.                                       *)
(***************************************************************************)
EXTENDS Integers, Sequences, FiniteSets, TLC

VARIABLES
    baseEvent,        \* argument: the event template (no id)
    repeatInfo,       \* argument: [type, interval]
    startDate,        \* argument: Date
    repeatEndDate,    \* argument: Date
    events,           \* local: the array being built / returned
    effectiveEndDate, \* local
    currentDate,      \* local: the running Date object (mutated in place)
    initialDay,       \* local
    initialMonth,     \* local
    candidates,       \* history: value of currentDate at the head of each iteration
    pc,               \* position in generateRecurringEvents: "call", "loop", "done"
    argDate,          \* date primitives: the Date argument
    argCount,         \* date primitives: the days / weeks / months / years argument
    argYear,          \* isLeapYear, getDaysInMonth: the year argument
    argMonth,         \* getDaysInMonth: the month argument
    result,           \* date primitives: the value returned
    dpc,              \* date primitives: "idle", the kind of arguments, or the function that returned
    mockEvents,       \* backend: the list of stored events
    loadedEvents,     \* hook: the state `events`
    requests,         \* history: the requests sent since the hook was mounted / the operation was called
    snackbar,         \* history: the notices enqueued since then
    onSaveCalls,      \* history: the calls of onSave made by the operation
    call,             \* hook: the operation called last and its arguments
    matchingRecurringEvents, \* hook: local of the group operations
    loopIndex,        \* hook: position of the for-of loop in matchingRecurringEvents / eventsToSave
    outcome,          \* hook: "none", "running", "ok" (the try block ended), "failed" (the catch ran)
    mockAtCall,       \* history: mockEvents when the operation was called
    loadedAtCall,     \* history: loadedEvents when the operation was called
    operations,       \* number of operations called
    hpc               \* hook: "mount", "idle", or the operation awaiting an answer

generatorVars == <<baseEvent, repeatInfo, startDate, repeatEndDate, events, effectiveEndDate,
                   currentDate, initialDay, initialMonth, candidates, pc>>
dateVars == <<argDate, argCount, argYear, argMonth, result, dpc>>

hookVars == <<mockEvents, loadedEvents, requests, snackbar, onSaveCalls, call,
              matchingRecurringEvents, loopIndex, outcome, mockAtCall, loadedAtCall,
              operations, hpc>>

vars == <<generatorVars, dateVars, hookVars>>

(***************************************************************************)
(* Bounds of the model                                                     *)
(***************************************************************************)
MaxInterval == 2      \* intervals 1..MaxInterval
YearsBack == 5        \* start dates from (horizon year - YearsBack)
YearsAhead == 1       \* ... up to (horizon year + YearsAhead)
MaxDaySteps == 6      \* daily / weekly inputs span at most this many steps
MaxCount == 14        \* date primitives: counts -MaxCount .. 2 * MaxCount + 3
MaxOperations == 2    \* hook: operations called one after the other
MaxPasses == 4        \* generator: passes explored of a loop that does not end

(***************************************************************************)
(* The built-in Date                                                       *)
(***************************************************************************)
\* number of days from 1970-01-01 to the civil date y-m-d (m is 1-based; d may
\* lie outside the month, the count is linear in d)
DaysFromCivil(y, m, d) ==
    LET yy  == IF m <= 2 THEN y - 1 ELSE y
        era == yy \div 400
        yoe == yy - era * 400
        mp  == IF m > 2 THEN m - 3 ELSE m + 9
        doy == (153 * mp + 2) \div 5 + d - 1
        doe == yoe * 365 + yoe \div 4 - yoe \div 100 + doy
    IN  era * 146097 + doe - 719468

\* the civil date <<year, month (1-based), day>> of a day number
CivilFromDays(t) ==
    LET z   == t + 719468
        era == z \div 146097
        doe == z - era * 146097
        yoe == (doe - doe \div 1460 + doe \div 36524 - doe \div 146096) \div 365
        doy == doe - (365 * yoe + yoe \div 4 - yoe \div 100)
        mp  == (5 * doy + 2) \div 153
        d   == doy - (153 * mp + 2) \div 5 + 1
        m   == IF mp < 10 THEN mp + 3 ELSE mp - 9
        y   == yoe + era * 400 + (IF m <= 2 THEN 1 ELSE 0)
    IN  <<y, m, d>>

HorizonYear == 2025

\* the calendar the model can reach, computed once: the day number of the
\* first day of every month (indexed by year * 12 + month, month 0-based) and
\* the civil date of every day
FirstYear == HorizonYear - YearsBack - 1
LastYear == HorizonYear + YearsAhead + MaxInterval + 1

RECURSIVE MonthRange(_, _)
MonthRange(lo, hi) ==
    IF lo = hi THEN lo :> DaysFromCivil(lo \div 12, (lo % 12) + 1, 1)
    ELSE MonthRange(lo, (lo + hi) \div 2) @@ MonthRange((lo + hi) \div 2 + 1, hi)
MonthStart == MonthRange(FirstYear * 12, LastYear * 12 + 11)

\* ECMAScript MakeDay(year, month, date): month is 0-based and may overflow
\* into the following years, date may overflow into the following months
MakeDay(year, month, date) == MonthStart[year * 12 + month] + date - 1

RECURSIVE CivilRange(_, _)
CivilRange(lo, hi) ==
    IF lo = hi THEN lo :> CivilFromDays(lo)
    ELSE CivilRange(lo, (lo + hi) \div 2) @@ CivilRange((lo + hi) \div 2 + 1, hi)
CivilTable == CivilRange(MakeDay(FirstYear, 0, 1), MakeDay(LastYear, 11, 31))

getFullYear(t) == CivilTable[t][1]
getMonth(t) == CivilTable[t][2] - 1
getDate(t) == CivilTable[t][3]
getTime(t) == t

setDate(t, date) == MakeDay(getFullYear(t), getMonth(t), date)
setMonth(t, month) == MakeDay(getFullYear(t), month, getDate(t))
setFullYear(t, year) == MakeDay(year, getMonth(t), getDate(t))

(***************************************************************************)
(* dateUtils.ts                                                            *)
(***************************************************************************)
\* variant: the month is taken 0-based
getDaysInMonth_zeroBased(year, month) == getDate(MakeDay(year, month + 1, 0))

\* new Date(year, month, 0).getDate(): month is 1-based here
getDaysInMonth(year, month) == getDate(MakeDay(year, month, 0))

DigitChars == <<"0", "1", "2", "3", "4", "5", "6", "7", "8", "9">>
Digit(n) == DigitChars[n + 1]

\* String(value) for a non-negative integer, as a sequence of characters
RECURSIVE String(_)
String(value) ==
    IF value < 10 THEN <<Digit(value)>>
    ELSE String(value \div 10) \o <<Digit(value % 10)>>

RECURSIVE padStart(_, _, _)
padStart(s, size, ch) ==
    IF Len(s) >= size THEN s ELSE padStart(<<ch>> \o s, size, ch)

\* variant: no padding
fillZero_noPad(value) == String(value)

fillZero(value) == padStart(String(value), 2, "0")

formatDate(t) ==
    String(getFullYear(t)) \o <<"-">> \o fillZero(getMonth(t) + 1)
        \o <<"-">> \o fillZero(getDate(t))

\* variant: the century rule is left out
isLeapYear_noCentury(year) == year % 4 = 0

\* the exported isLeapYear: three tests in sequence
isLeapYear(year) ==
    IF year % 400 = 0 THEN TRUE
    ELSE IF year % 100 = 0 THEN FALSE
    ELSE IF year % 4 = 0 THEN TRUE
    ELSE FALSE

\* variant: the day of the month is set to the count instead of advanced by it
addDays_setDay(date, days) == setDate(date, days)

\* the value of the copy `result` after result.setDate(result.getDate() + days)
addDays(date, days) == setDate(date, getDate(date) + days)

\* variant: the count of weeks is passed on as a count of days
addWeeks_asDays(date, weeks) == addDays(date, weeks)

addWeeks(date, weeks) == addDays(date, weeks * 7)

\* the JavaScript remainder a % b for b > 0: it carries the sign of a
Remainder(a, b) == IF a >= 0 THEN a % b ELSE -((-a) % b)

\* variant: the overflow into the following month is not taken back
addMonths_noClamp(date, months) == setMonth(date, getMonth(date) + months)

addMonths(date, months) ==
    LET targetMonth == getMonth(date) + months
        moved == setMonth(date, targetMonth)
        expectedMonth == (Remainder(getMonth(date) + months, 12) + 12) % 12
    IN  IF getMonth(moved) # expectedMonth THEN setDate(moved, 0) ELSE moved

\* variant: the overflow of February 29 into March is not taken back
addYears_noClamp(date, years) == setFullYear(date, getFullYear(date) + years)

addYears(date, years) ==
    LET targetYear == getFullYear(date) + years
        moved == setFullYear(date, targetYear)
    IN  IF getMonth(date) = 1 /\ getDate(date) = 29 /\ getMonth(moved) # 1
        THEN setDate(moved, 0)
        ELSE moved

MAX_RECURRENCE_DATE == MakeDay(HorizonYear, 11, 31)
LAST_DAY_OF_MONTH == 31
LEAP_DAY == 29
FEBRUARY_INDEX == 1
DAYS_IN_WEEK == 7

\* variant: the private copy forgets the centuries
isLeapYearLocal_fourOnly(year) == year % 4 = 0

isLeapYearLocal(year) ==
    (year % 4 = 0 /\ year % 100 # 0) \/ year % 400 = 0

isValidMonthlyRecurrence(cur, initDay) ==
    IF initDay # LAST_DAY_OF_MONTH THEN TRUE
    ELSE getDaysInMonth(getFullYear(cur), getMonth(cur) + 1) = LAST_DAY_OF_MONTH

\* variant: the leap-year check is left out
isValidYearlyRecurrence_always(cur, initMonth, initDay) == TRUE

isValidYearlyRecurrence(cur, initMonth, initDay) ==
    IF initMonth # FEBRUARY_INDEX \/ initDay # LEAP_DAY THEN TRUE
    ELSE isLeapYearLocal(getFullYear(cur))

shouldCreateEvent(repeatType, cur, initMonth, initDay) ==
    IF repeatType = "monthly" THEN isValidMonthlyRecurrence(cur, initDay)
    ELSE IF repeatType = "yearly" THEN isValidYearlyRecurrence(cur, initMonth, initDay)
    ELSE TRUE

Min(a, b) == IF a < b THEN a ELSE b

\* variant: the daily and weekly steps set the day of the month instead of
\* adding to it
calculateNextDate_dayOnly(cur, repeatType, interval, initMonth, initDay) ==
    CASE repeatType = "daily" ->
            setDate(cur, interval)
      [] repeatType = "weekly" ->
            setDate(cur, interval * DAYS_IN_WEEK)
      [] repeatType = "monthly" ->
            LET moved == setMonth(cur, getMonth(cur) + interval)
                daysInNewMonth == getDaysInMonth(getFullYear(moved), getMonth(moved) + 1)
            IN  setDate(moved, Min(initDay, daysInNewMonth))
      [] repeatType = "yearly" ->
            LET moved == setFullYear(cur, getFullYear(cur) + interval)
                daysInNewMonth == getDaysInMonth(getFullYear(moved), initMonth + 1)
            IN  setDate(setMonth(moved, initMonth), Min(initDay, daysInNewMonth))
      [] OTHER -> cur

\* variant: the weekly step adds interval days
calculateNextDate_weekAsDays(cur, repeatType, interval, initMonth, initDay) ==
    CASE repeatType = "daily" ->
            setDate(cur, getDate(cur) + interval)
      [] repeatType = "weekly" ->
            setDate(cur, getDate(cur) + interval)
      [] repeatType = "monthly" ->
            LET moved == setMonth(cur, getMonth(cur) + interval)
                daysInNewMonth == getDaysInMonth(getFullYear(moved), getMonth(moved) + 1)
            IN  setDate(moved, Min(initDay, daysInNewMonth))
      [] repeatType = "yearly" ->
            LET moved == setFullYear(cur, getFullYear(cur) + interval)
                daysInNewMonth == getDaysInMonth(getFullYear(moved), initMonth + 1)
            IN  setDate(setMonth(moved, initMonth), Min(initDay, daysInNewMonth))
      [] OTHER -> cur

\* variant: the monthly step does not set the day of the month again
calculateNextDate_noRepin(cur, repeatType, interval, initMonth, initDay) ==
    CASE repeatType = "daily" ->
            setDate(cur, getDate(cur) + interval)
      [] repeatType = "weekly" ->
            setDate(cur, getDate(cur) + interval * DAYS_IN_WEEK)
      [] repeatType = "monthly" ->
            setMonth(cur, getMonth(cur) + interval)
      [] repeatType = "yearly" ->
            LET moved == setFullYear(cur, getFullYear(cur) + interval)
                daysInNewMonth == getDaysInMonth(getFullYear(moved), initMonth + 1)
            IN  setDate(setMonth(moved, initMonth), Min(initDay, daysInNewMonth))
      [] OTHER -> cur

\* variant: the yearly step does not add the interval
calculateNextDate_stuck(cur, repeatType, interval, initMonth, initDay) ==
    CASE repeatType = "daily" ->
            setDate(cur, getDate(cur) + interval)
      [] repeatType = "weekly" ->
            setDate(cur, getDate(cur) + interval * DAYS_IN_WEEK)
      [] repeatType = "monthly" ->
            LET moved == setMonth(cur, getMonth(cur) + interval)
                daysInNewMonth == getDaysInMonth(getFullYear(moved), getMonth(moved) + 1)
            IN  setDate(moved, Min(initDay, daysInNewMonth))
      [] repeatType = "yearly" ->
            LET moved == setFullYear(cur, getFullYear(cur))
                daysInNewMonth == getDaysInMonth(getFullYear(moved), initMonth + 1)
            IN  setDate(setMonth(moved, initMonth), Min(initDay, daysInNewMonth))
      [] OTHER -> cur

\* variant: the yearly step sets the year and nothing else
calculateNextDate_yearOnly(cur, repeatType, interval, initMonth, initDay) ==
    CASE repeatType = "daily" ->
            setDate(cur, getDate(cur) + interval)
      [] repeatType = "weekly" ->
            setDate(cur, getDate(cur) + interval * DAYS_IN_WEEK)
      [] repeatType = "monthly" ->
            LET moved == setMonth(cur, getMonth(cur) + interval)
                daysInNewMonth == getDaysInMonth(getFullYear(moved), getMonth(moved) + 1)
            IN  setDate(moved, Min(initDay, daysInNewMonth))
      [] repeatType = "yearly" ->
            setFullYear(cur, getFullYear(cur) + interval)
      [] OTHER -> cur

\* variant: the monthly step clamps the day to the target month before it
\* moves there
calculateNextDate_clampFirst(cur, repeatType, interval, initMonth, initDay) ==
    CASE repeatType = "daily" ->
            setDate(cur, getDate(cur) + interval)
      [] repeatType = "weekly" ->
            setDate(cur, getDate(cur) + interval * DAYS_IN_WEEK)
      [] repeatType = "monthly" ->
            LET target == getMonth(cur) + interval
                daysInNewMonth == getDaysInMonth(getFullYear(cur) + target \div 12,
                                                 (target % 12) + 1)
            IN  setMonth(setDate(cur, Min(initDay, daysInNewMonth)), target)
      [] repeatType = "yearly" ->
            LET moved == setFullYear(cur, getFullYear(cur) + interval)
                daysInNewMonth == getDaysInMonth(getFullYear(moved), initMonth + 1)
            IN  setDate(setMonth(moved, initMonth), Min(initDay, daysInNewMonth))
      [] OTHER -> cur

\* variant: an interval of 0 is taken as 1 (interval || 1)
calculateNextDate_defaultOne(cur, repeatType, interval, initMonth, initDay) ==
    LET step == IF interval = 0 THEN 1 ELSE interval
    IN  CASE repeatType = "daily" ->
                setDate(cur, getDate(cur) + step)
          [] repeatType = "weekly" ->
                setDate(cur, getDate(cur) + step * DAYS_IN_WEEK)
          [] repeatType = "monthly" ->
                LET moved == setMonth(cur, getMonth(cur) + step)
                    daysInNewMonth == getDaysInMonth(getFullYear(moved), getMonth(moved) + 1)
                IN  setDate(moved, Min(initDay, daysInNewMonth))
          [] repeatType = "yearly" ->
                LET moved == setFullYear(cur, getFullYear(cur) + step)
                    daysInNewMonth == getDaysInMonth(getFullYear(moved), initMonth + 1)
                IN  setDate(setMonth(moved, initMonth), Min(initDay, daysInNewMonth))
          [] OTHER -> cur

\* the value of the running date after calculateNextDate has mutated it
calculateNextDate(cur, repeatType, interval, initMonth, initDay) ==
    CASE repeatType = "daily" ->
            setDate(cur, getDate(cur) + interval)
      [] repeatType = "weekly" ->
            setDate(cur, getDate(cur) + interval * DAYS_IN_WEEK)
      [] repeatType = "monthly" ->
            LET moved == setMonth(cur, getMonth(cur) + interval)
                daysInNewMonth == getDaysInMonth(getFullYear(moved), getMonth(moved) + 1)
            IN  setDate(moved, Min(initDay, daysInNewMonth))
      [] repeatType = "yearly" ->
            LET moved == setFullYear(cur, getFullYear(cur) + interval)
                daysInNewMonth == getDaysInMonth(getFullYear(moved), initMonth + 1)
            IN  setDate(setMonth(moved, initMonth), Min(initDay, daysInNewMonth))
      [] OTHER -> cur

\* variant: the requested end date is used as it is
getEffectiveEndDate_noClamp(endDate) == endDate

\* variant: the horizon is used whatever the requested end date
getEffectiveEndDate_horizonOnly(endDate) == MAX_RECURRENCE_DATE

getEffectiveEndDate(endDate) ==
    IF getTime(endDate) > getTime(MAX_RECURRENCE_DATE) THEN MAX_RECURRENCE_DATE ELSE endDate

\* variant: the end date is excluded
loopCondition_strict(cur, end) == getTime(cur) < getTime(end)

\* the condition of the while loop
loopCondition(cur, end) == getTime(cur) <= getTime(end)

\* { ...baseEvent, date: formatDate(currentDate) }
makeOccurrence(base, cur) == [base EXCEPT !.date = formatDate(cur)]

(***************************************************************************)
(* Inputs                                                                  *)
(***************************************************************************)
RepeatTypes == {"none", "daily", "weekly", "monthly", "yearly"}
Intervals == 1..MaxInterval

StartYears == (HorizonYear - YearsBack)..(HorizonYear + YearsAhead)
StartDaysOfMonth == {1, 28, 29, 30, 31}

StartDates ==
    { MakeDay(y, m, d) : <<y, m, d>> \in
        { c \in StartYears \X (0..11) \X StartDaysOfMonth :
            /\ c[3] <= getDaysInMonth(c[1], c[2] + 1)
            /\ c[3] = 28 => c[2] = FEBRUARY_INDEX } }

\* requested end dates: relative to the start date, and a few fixed ones
EndOffsets == {-1, 0, 2, 28, 89, 366}
FixedEndDates ==
    {MAX_RECURRENCE_DATE, MakeDay(2026, 0, 5)}

EndDatesFor(start) == {start + o : o \in EndOffsets} \cup FixedEndDates

BaseEventA ==
    [title |-> "daily meeting", date |-> formatDate(MakeDay(2023, 0, 1)),
     startTime |-> "10:00", endTime |-> "11:00", description |-> "",
     location |-> "", category |-> "", repeat |-> "tmpl-a",
     notificationTime |-> 10]
BaseEventB ==
    [title |-> "review", date |-> formatDate(MakeDay(2024, 1, 29)),
     startTime |-> "14:30", endTime |-> "15:00", description |-> "weekly sync",
     location |-> "room 2", category |-> "work", repeat |-> "tmpl-b",
     notificationTime |-> 60]
BaseEvents == {BaseEventA, BaseEventB}

\* length in days of one step of a daily / weekly rule
StepDays(type, interval) ==
    IF type = "weekly" THEN interval * DAYS_IN_WEEK ELSE interval

\* daily and weekly rules are explored over at most MaxDaySteps steps
InputInBounds(type, interval, start, end) ==
    type \in {"daily", "weekly"} =>
        getEffectiveEndDate(end) - start <= MaxDaySteps * StepDays(type, interval)

(***************************************************************************)
(* useEventOperations (src/src/hooks/useEventOperations.ts) and the mock   *)
(* backend of its tests.  A string of the interface is kept as the         *)
(* sequence of its UTF-16 code units; event titles and places are opaque   *)
(* data and stand as ASCII strings.                                        *)
(***************************************************************************)
REPEAT_TYPE_NONE == "none"

\* '일정 로딩 완료!'
LOADING_COMPLETE ==
    <<51068, 51221, 32, 47196, 46377, 32, 50756, 47308, 33>>

\* '이벤트 로딩 실패'
LOADING_FAILED ==
    <<51060, 48292, 53944, 32, 47196, 46377, 32, 49892, 54056>>

\* '일정이 수정되었습니다.'
EVENT_UPDATED ==
    <<51068, 51221, 51060, 32, 49688, 51221, 46104, 50632, 49845, 45768,
      45796, 46>>

\* '모든 반복 일정이 수정되었습니다.'
ALL_RECURRING_EVENTS_UPDATED ==
    <<47784, 46304, 32, 48152, 48373, 32, 51068, 51221, 51060, 32, 49688,
      51221, 46104, 50632, 49845, 45768, 45796, 46>>

\* '반복 일정 수정 실패'
RECURRING_EVENT_UPDATE_FAILED ==
    <<48152, 48373, 32, 51068, 51221, 32, 49688, 51221, 32, 49892, 54056>>

\* '일정 수정 실패'
SINGLE_RECURRING_EVENT_UPDATE_FAILED ==
    <<51068, 51221, 32, 49688, 51221, 32, 49892, 54056>>

\* '모든 반복 일정이 삭제되었습니다.'
ALL_RECURRING_EVENTS_DELETED ==
    <<47784, 46304, 32, 48152, 48373, 32, 51068, 51221, 51060, 32, 49325,
      51228, 46104, 50632, 49845, 45768, 45796, 46>>

\* '반복 일정 삭제 실패'
RECURRING_EVENT_DELETE_FAILED ==
    <<48152, 48373, 32, 51068, 51221, 32, 49325, 51228, 32, 49892, 54056>>

\* '일정이 삭제되었습니다.'
EVENT_DELETED ==
    <<51068, 51221, 51060, 32, 49325, 51228, 46104, 50632, 49845, 45768,
      45796, 46>>

\* '일정 삭제 실패'
EVENT_DELETE_FAILED ==
    <<51068, 51221, 32, 49325, 51228, 32, 49892, 54056>>

\* '반복 일정이 모두 추가되었습니다.'
MULTIPLE_EVENTS_ADDED ==
    <<48152, 48373, 32, 51068, 51221, 51060, 32, 47784, 46160, 32, 52628,
      44032, 46104, 50632, 49845, 45768, 45796, 46>>

\* '반복 일정 저장 실패'
MULTIPLE_EVENTS_SAVE_FAILED ==
    <<48152, 48373, 32, 51068, 51221, 32, 51200, 51109, 32, 49892, 54056>>

\* an argument that is not passed / a request without a body
Undefined == [undefined |-> TRUE]

\* createMockEvent with its overrides
createMockEvent(id, date) ==
    [id |-> id, title |-> "weekly meeting", date |-> date, startTime |-> "09:00",
     endTime |-> "10:00", description |-> "team meeting every week",
     location |-> "room A", category |-> "work",
     repeat |-> [type |-> "weekly", interval |-> 1], notificationTime |-> 10]

\* createDifferentRecurringGroup
createDailyStandup(id, date) ==
    [createMockEvent(id, date) EXCEPT
        !.title = "daily standup", !.startTime = "10:00", !.endTime = "10:15",
        !.description = "standup every morning", !.location = "room B",
        !.repeat = [type |-> "daily", interval |-> 1], !.notificationTime = 5]

\* createSingleEvent: the title and the times of the weekly group, not recurring
createSingleEvent(id, date) ==
    [createMockEvent(id, date) EXCEPT !.repeat = [type |-> "none", interval |-> 0]]

\* the backends the hook is mounted on
InitialBackends ==
    { <<createMockEvent("1", "2025-10-15"), createMockEvent("2", "2025-10-22"),
        createMockEvent("3", "2025-10-29")>>,
      <<createMockEvent("1", "2025-10-15"), createMockEvent("2", "2025-10-22"),
        createDailyStandup("3", "2025-10-15"), createDailyStandup("4", "2025-10-16")>>,
      <<createMockEvent("1", "2025-10-15"), createSingleEvent("2", "2025-10-16"),
        createMockEvent("3", "2025-10-22"), createDailyStandup("4", "2025-10-15")>>,
      <<createMockEvent("1", "2025-10-15"),
        [createMockEvent("2", "2025-10-15") EXCEPT !.repeat.type = "monthly"],
        [createMockEvent("3", "2025-10-22") EXCEPT !.startTime = "13:00",
                                                   !.endTime = "14:00"],
        [createMockEvent("4", "2025-10-22") EXCEPT !.repeat.interval = 2]>> }

\* the edits of the form: those of the tests, and one that touches every field
Edits == {"none", "title", "fields", "every field"}
Edited(event, edit) ==
    CASE edit = "title" -> [event EXCEPT !.title = "edited single"]
      [] edit = "fields" ->
            [event EXCEPT !.title = "edited meeting", !.startTime = "14:00",
                          !.endTime = "15:00", !.location = "room B",
                          !.description = "edited description"]
      [] edit = "every field" ->
            [event EXCEPT !.title = "edited meeting", !.startTime = "14:00",
                          !.endTime = "15:00", !.location = "room B",
                          !.description = "edited description",
                          !.category = "private", !.notificationTime = 60,
                          !.date = "2025-11-03",
                          !.repeat = [type |-> "daily", interval |-> 3]]
      [] OTHER -> event

Range(s) == {s[i] : i \in DOMAIN s}

\* findIndex((event) => event.id === id): 0 stands for -1
findIndex(list, id) ==
    IF \E i \in DOMAIN list : list[i].id = id
    THEN CHOOSE i \in DOMAIN list :
             list[i].id = id /\ \A j \in DOMAIN list : list[j].id = id => i <= j
    ELSE 0

\* { ...a, ...b }
Spread(a, b) ==
    [f \in DOMAIN a \cup DOMAIN b |-> IF f \in DOMAIN b THEN b[f] ELSE a[f]]

\* the PUT handler of the mock backend
mockPut(list, id, updatedEvent) ==
    LET index == findIndex(list, id)
    IN  IF index # 0 THEN [list EXCEPT ![index] = Spread(list[index], updatedEvent)]
        ELSE list

\* the DELETE handler of the mock backend
mockDelete(list, id) ==
    LET index == findIndex(list, id)
    IN  IF index # 0
        THEN [i \in 1..(Len(list) - 1) |-> IF i < index THEN list[i] ELSE list[i + 1]]
        ELSE list

\* the POST handler of the mock backend: the id is the new length of the list
mockPost(list, newEvent) ==
    Append(list, Spread(newEvent, [id |-> ToString(Len(list) + 1)]))

\* variant: a response that is not OK is taken as it comes
callApiThrows_never(ok) == FALSE

\* callApi: if (!response.ok) throw
callApiThrows(ok) == ~ok

\* an EventForm: an event that has no id yet
createEventForm(date) ==
    [f \in DOMAIN createMockEvent("", date) \ {"id"} |-> createMockEvent("", date)[f]]

\* the lists handed to saveMultipleEvents: the occurrences of a weekly series
EventsToSave ==
    { <<>>,
      <<createEventForm("2025-11-05")>>,
      <<createEventForm("2025-11-05"), createEventForm("2025-11-12")>>,
      <<createEventForm("2025-11-05"), createEventForm("2025-11-12"),
        createEventForm("2025-11-19")>> }

\* variant: the group is told by the title alone
findRecurringGroupEvents_byTitle(list, referenceEvent) ==
    SelectSeq(list, LAMBDA event : event.title = referenceEvent.title)

findRecurringGroupEvents(list, referenceEvent) ==
    SelectSeq(list, LAMBDA event :
        /\ event.title = referenceEvent.title
        /\ event.startTime = referenceEvent.startTime
        /\ event.endTime = referenceEvent.endTime
        /\ event.repeat.type = referenceEvent.repeat.type
        /\ event.repeat.type # REPEAT_TYPE_NONE)

\* variant: the modified event is sent as it is
applyUpdatesToGroupEvent_whole(groupEvent, modifiedEvent) == modifiedEvent

applyUpdatesToGroupEvent(groupEvent, modifiedEvent) ==
    [groupEvent EXCEPT
        !.title = modifiedEvent.title,
        !.description = modifiedEvent.description,
        !.location = modifiedEvent.location,
        !.category = modifiedEvent.category,
        !.notificationTime = modifiedEvent.notificationTime,
        !.startTime = modifiedEvent.startTime,
        !.endTime = modifiedEvent.endTime]

\* variant: the event is sent with the repeat type it has
withoutRepeat_kept(eventToUpdate) == eventToUpdate

\* { ...eventToUpdate, repeat: { ...eventToUpdate.repeat, type: 'none' } }
withoutRepeat(eventToUpdate) ==
    [eventToUpdate EXCEPT
        !.repeat = Spread(eventToUpdate.repeat, [type |-> REPEAT_TYPE_NONE])]

Request(method, id, body) == [method |-> method, id |-> id, body |-> body]
Notice(message, variant) == [message |-> message, variant |-> variant]

\* no operation has been called on the hook
HookIdle ==
    /\ mockEvents = <<>>
    /\ loadedEvents = <<>>
    /\ requests = <<>>
    /\ snackbar = <<>>
    /\ onSaveCalls = 0
    /\ call = [op |-> "none", event |-> Undefined, originalEvent |-> Undefined]
    /\ matchingRecurringEvents = <<>>
    /\ loopIndex = 1
    /\ outcome = "none"
    /\ mockAtCall = <<>>
    /\ loadedAtCall = <<>>
    /\ operations = 0
    /\ hpc = "idle"

(***************************************************************************)
(* generateRecurringEvents                                                 *)
(***************************************************************************)
\* no date primitive is being called
DateIdle ==
    /\ argDate = MAX_RECURRENCE_DATE
    /\ argCount = 0
    /\ argYear = HorizonYear
    /\ argMonth = 1
    /\ result = 0
    /\ dpc = "idle"

\* before the call: no arguments bound yet, no locals
GeneratorIdle ==
    /\ baseEvent = BaseEventA
    /\ repeatInfo = [type |-> "none", interval |-> 1]
    /\ startDate = MAX_RECURRENCE_DATE
    /\ repeatEndDate = MAX_RECURRENCE_DATE
    /\ events = <<>>
    /\ effectiveEndDate = MAX_RECURRENCE_DATE
    /\ currentDate = MAX_RECURRENCE_DATE
    /\ initialDay = 0
    /\ initialMonth = 0
    /\ candidates = <<>>
    /\ pc = "call"

Init == GeneratorIdle /\ DateIdle /\ HookIdle

\* the call with its arguments, and lines 316-320: the locals are set up
Enter(base, info, start, end) ==
    /\ pc = "call"
    /\ baseEvent' = base
    /\ repeatInfo' = info
    /\ startDate' = start
    /\ repeatEndDate' = end
    /\ events' = <<>>
    /\ effectiveEndDate' = getEffectiveEndDate(end)
    /\ currentDate' = start
    /\ initialDay' = getDate(start)
    /\ initialMonth' = getMonth(start)
    /\ pc' = "loop"
    /\ UNCHANGED candidates
    /\ UNCHANGED <<dateVars, hookVars>>

\* variant: no break for type none
Iterate_noBreak ==
    /\ pc = "loop"
    /\ loopCondition(currentDate, effectiveEndDate)
    /\ events' = IF shouldCreateEvent(repeatInfo.type, currentDate, initialMonth, initialDay)
                 THEN Append(events, makeOccurrence(baseEvent, currentDate))
                 ELSE events
    /\ currentDate' = calculateNextDate(currentDate, repeatInfo.type, repeatInfo.interval,
                                        initialMonth, initialDay)
    /\ candidates' = Append(candidates, currentDate)
    /\ pc' = "loop"
    /\ UNCHANGED <<baseEvent, repeatInfo, startDate, repeatEndDate, effectiveEndDate,
                   initialDay, initialMonth>>
    /\ UNCHANGED <<dateVars, hookVars>>

\* variant: the running date is startDate itself, not a copy of it
Iterate_aliased ==
    /\ pc = "loop"
    /\ loopCondition(currentDate, effectiveEndDate)
    /\ events' = IF shouldCreateEvent(repeatInfo.type, currentDate, initialMonth, initialDay)
                 THEN Append(events, makeOccurrence(baseEvent, currentDate))
                 ELSE events
    /\ currentDate' = calculateNextDate(currentDate, repeatInfo.type, repeatInfo.interval,
                                        initialMonth, initialDay)
    /\ startDate' = currentDate'
    /\ candidates' = Append(candidates, currentDate)
    /\ pc' = IF repeatInfo.type = "none" THEN "done" ELSE "loop"
    /\ UNCHANGED <<baseEvent, repeatInfo, repeatEndDate, effectiveEndDate,
                   initialDay, initialMonth>>
    /\ UNCHANGED <<dateVars, hookVars>>

\* lines 322-334: one iteration of the while loop
Iterate ==
    /\ pc = "loop"
    /\ loopCondition(currentDate, effectiveEndDate)
    /\ events' = IF shouldCreateEvent(repeatInfo.type, currentDate, initialMonth, initialDay)
                 THEN Append(events, makeOccurrence(baseEvent, currentDate))
                 ELSE events
    /\ currentDate' = calculateNextDate(currentDate, repeatInfo.type, repeatInfo.interval,
                                        initialMonth, initialDay)
    /\ candidates' = Append(candidates, currentDate)
    /\ pc' = IF repeatInfo.type = "none" THEN "done" ELSE "loop"
    /\ UNCHANGED <<baseEvent, repeatInfo, startDate, repeatEndDate, effectiveEndDate,
                   initialDay, initialMonth>>
    /\ UNCHANGED <<dateVars, hookVars>>

\* lines 322, 337: the loop condition fails, the array is returned
Return ==
    /\ pc = "loop"
    /\ ~loopCondition(currentDate, effectiveEndDate)
    /\ pc' = "done"
    /\ UNCHANGED <<baseEvent, repeatInfo, startDate, repeatEndDate, events,
                   effectiveEndDate, currentDate, initialDay, initialMonth, candidates>>
    /\ UNCHANGED <<dateVars, hookVars>>

Call ==
    /\ pc = "call"
    /\ \E base \in BaseEvents, info \in [type : RepeatTypes, interval : Intervals],
          start \in StartDates :
           \E end \in EndDatesFor(start) :
               /\ InputInBounds(info.type, info.interval, start, end)
               /\ Enter(base, info, start, end)

Next == Call \/ Iterate \/ Return

Spec == Init /\ [][Next]_vars

\* the calls explored for termination: the template plays no part in the
\* control flow, one is enough
CallTerm ==
    /\ pc = "call"
    /\ \E info \in [type : RepeatTypes, interval : Intervals], start \in StartDates :
           \E end \in EndDatesFor(start) :
               /\ InputInBounds(info.type, info.interval, start, end)
               /\ Enter(BaseEventA, info, start, end)

NextTerm == CallTerm \/ Iterate \/ Return

\* the function is a sequential computation: once called, a step of the loop
\* that can be taken is taken
FairSpec == Init /\ [][NextTerm]_vars /\ WF_vars(Iterate) /\ WF_vars(Return)

(***************************************************************************)
(* The date primitives, each called once on arguments drawn at the start   *)
(***************************************************************************)
\* the Date arguments: the first, the middle and the last days of every month
DateDays == {1, 15, 25, 28, 29, 30, 31}
DateArgs ==
    { MakeDay(c[1], c[2], c[3]) :
        c \in { c \in StartYears \X (0..11) \X DateDays :
                   c[3] <= getDaysInMonth(c[1], c[2] + 1) } }

\* the counts: every small one of either sign, and the lengths of a month,
\* of two months and of a year
LongCounts == {59, 60, 365, 366}
CountArgs == ((-MaxCount)..(2 * MaxCount + 3)) \cup LongCounts

\* the years: around the turns of four centuries, and those of the calendar
CenturyYears == {1900, 2000, 2100, 2400}
YearArgs ==
    UNION { (c - MaxCount)..(c + MaxCount) : c \in CenturyYears }
        \cup (FirstYear..(LastYear - 1))
MonthArgs == 1..12

\* the calendar of the model ends with LastYear
InCalendar(t) == MakeDay(FirstYear, 0, 1) <= t /\ t <= MakeDay(LastYear, 11, 31)
MonthInCalendar(i) == FirstYear * 12 <= i /\ i + 1 <= LastYear * 12 + 11

InitDate ==
    /\ GeneratorIdle
    /\ HookIdle
    /\ result = 0
    /\ \/ /\ dpc = "date"
          /\ argDate \in DateArgs
          /\ argCount \in CountArgs
          /\ argYear = HorizonYear
          /\ argMonth = 1
       \/ /\ dpc = "year"
          /\ argYear \in YearArgs
          /\ argMonth \in MonthArgs
          /\ argDate = MAX_RECURRENCE_DATE
          /\ argCount = 0

\* the function returns: the arguments are as they were
Returned(fn, value) ==
    /\ result' = value
    /\ dpc' = fn
    /\ UNCHANGED <<argDate, argCount, argYear, argMonth, generatorVars, hookVars>>

CallIsLeapYear ==
    /\ dpc = "year"
    /\ Returned("isLeapYear", isLeapYear(argYear))

CallGetDaysInMonth ==
    /\ dpc = "year"
    /\ argYear \in FirstYear..(LastYear - 1)
    /\ Returned("getDaysInMonth", getDaysInMonth(argYear, argMonth))

CallAddDays ==
    /\ dpc = "date"
    /\ InCalendar(addDays(argDate, argCount))
    /\ Returned("addDays", addDays(argDate, argCount))

CallAddWeeks ==
    /\ dpc = "date"
    /\ InCalendar(addWeeks(argDate, argCount))
    /\ Returned("addWeeks", addWeeks(argDate, argCount))

CallAddMonths ==
    /\ dpc = "date"
    /\ MonthInCalendar(getFullYear(argDate) * 12 + getMonth(argDate) + argCount)
    /\ Returned("addMonths", addMonths(argDate, argCount))

CallAddYears ==
    /\ dpc = "date"
    /\ getFullYear(argDate) + argCount \in FirstYear..LastYear
    /\ Returned("addYears", addYears(argDate, argCount))

NextDate ==
    \/ CallIsLeapYear
    \/ CallGetDaysInMonth
    \/ CallAddDays
    \/ CallAddWeeks
    \/ CallAddMonths
    \/ CallAddYears

DateSpec == InitDate /\ [][NextDate]_vars

(***************************************************************************)
(* generateRecurringEvents on the arguments it does not check: a repeat    *)
(* type outside the union (the type is erased at run time) and an interval *)
(* that is not positive                                                    *)
(***************************************************************************)
UnknownTypes == {"hourly"}
NonPositiveIntervals == (-MaxInterval)..0

UncheckedRepeatInfos ==
    [type : UnknownTypes, interval : Intervals]
        \cup [type : RepeatTypes \ {"none"}, interval : NonPositiveIntervals]

\* the step from cur stays in the calendar of the model
StepInCalendar(cur, repeatType, interval) ==
    CASE repeatType = "monthly" ->
            MonthInCalendar(getFullYear(cur) * 12 + getMonth(cur) + interval)
      [] repeatType = "yearly" ->
            getFullYear(cur) + interval \in FirstYear..LastYear
      [] OTHER -> TRUE

CallUnchecked ==
    /\ pc = "call"
    /\ \E info \in UncheckedRepeatInfos, start \in StartDates :
           \E end \in EndDatesFor(start) :
               Enter(BaseEventA, info, start, end)

\* one pass of the loop, as long as passes are explored
IterateUnchecked ==
    /\ Len(candidates) < MaxPasses
    /\ pc = "loop"
    /\ StepInCalendar(currentDate, repeatInfo.type, repeatInfo.interval)
    /\ Iterate

NextUnchecked == CallUnchecked \/ IterateUnchecked \/ Return

UncheckedSpec == Init /\ [][NextUnchecked]_vars

(***************************************************************************)
(* The operations of the hook                                              *)
(***************************************************************************)
\* the hook has been rendered over a backend; its effect has not run yet
InitHook ==
    /\ GeneratorIdle
    /\ DateIdle
    /\ mockEvents \in InitialBackends
    /\ loadedEvents = <<>>
    /\ requests = <<>>
    /\ snackbar = <<>>
    /\ onSaveCalls = 0
    /\ call = [op |-> "none", event |-> Undefined, originalEvent |-> Undefined]
    /\ matchingRecurringEvents = <<>>
    /\ loopIndex = 1
    /\ outcome = "none"
    /\ mockAtCall = <<>>
    /\ loadedAtCall = <<>>
    /\ operations = 0
    /\ hpc = "mount"

\* fetchEvents, followed by the notices the caller enqueues after it: the
\* list is replaced when the GET is answered, a failure is reported and
\* swallowed
FetchEvents(ok, after) ==
    /\ requests' = Append(requests, Request("GET", "", Undefined))
    /\ loadedEvents' = IF ok THEN mockEvents ELSE loadedEvents
    /\ snackbar' = (IF ok THEN snackbar
                    ELSE Append(snackbar, Notice(LOADING_FAILED, "error"))) \o after

\* init, run by the effect of the first render
Mount ==
    /\ hpc = "mount"
    /\ \E ok \in BOOLEAN : FetchEvents(ok, <<Notice(LOADING_COMPLETE, "info")>>)
    /\ hpc' = "idle"
    /\ UNCHANGED <<mockEvents, onSaveCalls, call, matchingRecurringEvents, loopIndex, outcome,
                   mockAtCall, loadedAtCall, operations, generatorVars, dateVars>>

\* an operation is entered: its arguments and what it starts from
Entered(op, event, originalEvent) ==
    /\ hpc = "idle"
    /\ operations < MaxOperations
    /\ operations' = operations + 1
    /\ call' = [op |-> op, event |-> event, originalEvent |-> originalEvent]
    /\ mockAtCall' = mockEvents
    /\ loadedAtCall' = loadedEvents
    /\ onSaveCalls' = 0
    /\ UNCHANGED <<loadedEvents, generatorVars, dateVars>>

\* the PUT of updateSingleRecurringEvent, and the catch when it fails
UpdateSingleCall ==
    \E eventToUpdate \in Range(loadedEvents), edit \in {"none", "title"}, ok \in BOOLEAN :
        LET updatedEvent == withoutRepeat(Edited(eventToUpdate, edit))
        IN  /\ Entered("updateSingle", Edited(eventToUpdate, edit), Undefined)
            /\ requests' = <<Request("PUT", eventToUpdate.id, updatedEvent)>>
            /\ mockEvents' = IF ok THEN mockPut(mockEvents, eventToUpdate.id, updatedEvent)
                             ELSE mockEvents
            /\ snackbar' = IF ok THEN <<>>
                           ELSE <<Notice(SINGLE_RECURRING_EVENT_UPDATE_FAILED, "error")>>
            /\ outcome' = IF ok THEN "running" ELSE "failed"
            /\ hpc' = IF ok THEN "updateSingle" ELSE "idle"
            /\ UNCHANGED <<matchingRecurringEvents, loopIndex>>

\* lines 157-159
UpdateSingleFinish ==
    /\ hpc = "updateSingle"
    /\ \E ok \in BOOLEAN : FetchEvents(ok, <<Notice(EVENT_UPDATED, "success")>>)
    /\ onSaveCalls' = onSaveCalls + 1
    /\ outcome' = "ok"
    /\ hpc' = "idle"
    /\ UNCHANGED <<mockEvents, call, matchingRecurringEvents, loopIndex, mockAtCall,
                   loadedAtCall, operations, generatorVars, dateVars>>

\* lines 213-216: the group is looked up in the loaded list
UpdateAllCall ==
    \E original \in Range(loadedEvents), edit \in {"fields", "every field"},
       passed \in BOOLEAN :
        LET modifiedEvent == Edited(original, edit)
            originalEvent == IF passed THEN original ELSE Undefined
            referenceEvent == IF originalEvent # Undefined THEN originalEvent
                              ELSE modifiedEvent
        IN  /\ Entered("updateAll", modifiedEvent, originalEvent)
            /\ matchingRecurringEvents' = findRecurringGroupEvents(loadedEvents, referenceEvent)
            /\ loopIndex' = 1
            /\ requests' = <<>>
            /\ snackbar' = <<>>
            /\ outcome' = "running"
            /\ hpc' = "updateAll"
            /\ UNCHANGED mockEvents

\* lines 219-222: one pass of the loop, and the catch when the PUT fails
UpdateAllRequest ==
    /\ hpc = "updateAll"
    /\ loopIndex <= Len(matchingRecurringEvents)
    /\ LET groupEvent == matchingRecurringEvents[loopIndex]
           updatedEvent == applyUpdatesToGroupEvent(groupEvent, call.event)
       IN  \E ok \in BOOLEAN :
               /\ requests' = Append(requests, Request("PUT", groupEvent.id, updatedEvent))
               /\ mockEvents' = IF ok THEN mockPut(mockEvents, groupEvent.id, updatedEvent)
                                ELSE mockEvents
               /\ loopIndex' = IF ok THEN loopIndex + 1 ELSE loopIndex
               /\ snackbar' = IF ok THEN snackbar
                              ELSE Append(snackbar,
                                          Notice(RECURRING_EVENT_UPDATE_FAILED, "error"))
               /\ outcome' = IF ok THEN outcome ELSE "failed"
               /\ hpc' = IF ok THEN hpc ELSE "idle"
    /\ UNCHANGED <<loadedEvents, onSaveCalls, call, matchingRecurringEvents, mockAtCall,
                   loadedAtCall, operations, generatorVars, dateVars>>

\* lines 224-226
UpdateAllFinish ==
    /\ hpc = "updateAll"
    /\ loopIndex > Len(matchingRecurringEvents)
    /\ \E ok \in BOOLEAN :
           FetchEvents(ok, <<Notice(ALL_RECURRING_EVENTS_UPDATED, "success")>>)
    /\ onSaveCalls' = onSaveCalls + 1
    /\ outcome' = "ok"
    /\ hpc' = "idle"
    /\ UNCHANGED <<mockEvents, call, matchingRecurringEvents, loopIndex, mockAtCall,
                   loadedAtCall, operations, generatorVars, dateVars>>

\* line 241: the group is looked up in the loaded list
DeleteAllCall ==
    \E referenceEvent \in Range(loadedEvents) :
        /\ Entered("deleteAll", referenceEvent, Undefined)
        /\ matchingRecurringEvents' = findRecurringGroupEvents(loadedEvents, referenceEvent)
        /\ loopIndex' = 1
        /\ requests' = <<>>
        /\ snackbar' = <<>>
        /\ outcome' = "running"
        /\ hpc' = "deleteAll"
        /\ UNCHANGED mockEvents

\* lines 244-246: one pass of the loop, and the catch when the DELETE fails
DeleteAllRequest ==
    /\ hpc = "deleteAll"
    /\ loopIndex <= Len(matchingRecurringEvents)
    /\ LET event == matchingRecurringEvents[loopIndex]
       IN  \E ok \in BOOLEAN :
               /\ requests' = Append(requests, Request("DELETE", event.id, Undefined))
               /\ mockEvents' = IF ok THEN mockDelete(mockEvents, event.id) ELSE mockEvents
               /\ loopIndex' = IF ok THEN loopIndex + 1 ELSE loopIndex
               /\ snackbar' = IF ok THEN snackbar
                              ELSE Append(snackbar,
                                          Notice(RECURRING_EVENT_DELETE_FAILED, "error"))
               /\ outcome' = IF ok THEN outcome ELSE "failed"
               /\ hpc' = IF ok THEN hpc ELSE "idle"
    /\ UNCHANGED <<loadedEvents, onSaveCalls, call, matchingRecurringEvents, mockAtCall,
                   loadedAtCall, operations, generatorVars, dateVars>>

\* lines 249-252
DeleteAllFinish ==
    /\ hpc = "deleteAll"
    /\ loopIndex > Len(matchingRecurringEvents)
    /\ \E ok \in BOOLEAN :
           FetchEvents(ok, <<Notice(ALL_RECURRING_EVENTS_DELETED, "success")>>)
    /\ outcome' = "ok"
    /\ hpc' = "idle"
    /\ UNCHANGED <<mockEvents, onSaveCalls, call, matchingRecurringEvents, loopIndex,
                   mockAtCall, loadedAtCall, operations, generatorVars, dateVars>>

NextHook ==
    \/ Mount
    \/ UpdateSingleCall
    \/ UpdateSingleFinish
    \/ UpdateAllCall
    \/ UpdateAllRequest
    \/ UpdateAllFinish
    \/ DeleteAllCall
    \/ DeleteAllRequest
    \/ DeleteAllFinish

HookSpec == InitHook /\ [][NextHook]_vars

\* saveMultipleEvents is called
SaveMultipleCall ==
    \E eventsToSave \in EventsToSave :
        /\ Entered("saveMultiple", eventsToSave, Undefined)
        /\ loopIndex' = 1
        /\ requests' = <<>>
        /\ snackbar' = <<>>
        /\ outcome' = "running"
        /\ hpc' = "saveMultiple"
        /\ UNCHANGED <<mockEvents, matchingRecurringEvents>>

\* variant: a POST that fails is reported and the loop goes on
SaveMultipleRequest_goesOn ==
    /\ hpc = "saveMultiple"
    /\ loopIndex <= Len(call.event)
    /\ LET eventData == call.event[loopIndex]
       IN  \E ok \in BOOLEAN :
               /\ requests' = Append(requests, Request("POST", "", eventData))
               /\ mockEvents' = IF ok THEN mockPost(mockEvents, eventData) ELSE mockEvents
               /\ loopIndex' = loopIndex + 1
               /\ snackbar' = IF callApiThrows(ok)
                              THEN Append(snackbar,
                                          Notice(MULTIPLE_EVENTS_SAVE_FAILED, "error"))
                              ELSE snackbar
               /\ outcome' = IF callApiThrows(ok) THEN "failed" ELSE outcome
               /\ hpc' = hpc
    /\ UNCHANGED <<loadedEvents, onSaveCalls, call, matchingRecurringEvents, mockAtCall,
                   loadedAtCall, operations, generatorVars, dateVars>>

\* lines 110-116: one pass of the loop, and the catch when the POST fails
SaveMultipleRequest ==
    /\ hpc = "saveMultiple"
    /\ loopIndex <= Len(call.event)
    /\ LET eventData == call.event[loopIndex]
       IN  \E ok \in BOOLEAN :
               /\ requests' = Append(requests, Request("POST", "", eventData))
               /\ mockEvents' = IF ok THEN mockPost(mockEvents, eventData) ELSE mockEvents
               /\ loopIndex' = IF callApiThrows(ok) THEN loopIndex ELSE loopIndex + 1
               /\ snackbar' = IF callApiThrows(ok)
                              THEN Append(snackbar,
                                          Notice(MULTIPLE_EVENTS_SAVE_FAILED, "error"))
                              ELSE snackbar
               /\ outcome' = IF callApiThrows(ok) THEN "failed" ELSE outcome
               /\ hpc' = IF callApiThrows(ok) THEN "idle" ELSE hpc
    /\ UNCHANGED <<loadedEvents, onSaveCalls, call, matchingRecurringEvents, mockAtCall,
                   loadedAtCall, operations, generatorVars, dateVars>>

\* lines 118-120
SaveMultipleFinish ==
    /\ hpc = "saveMultiple"
    /\ loopIndex > Len(call.event)
    /\ \E ok \in BOOLEAN : FetchEvents(ok, <<Notice(MULTIPLE_EVENTS_ADDED, "success")>>)
    /\ onSaveCalls' = onSaveCalls + 1
    /\ outcome' = "ok"
    /\ hpc' = "idle"
    /\ UNCHANGED <<mockEvents, call, matchingRecurringEvents, loopIndex, mockAtCall,
                   loadedAtCall, operations, generatorVars, dateVars>>

\* the DELETE of deleteEvent, and the catch when it fails
DeleteEventCall ==
    \E event \in Range(loadedEvents), ok \in BOOLEAN :
        /\ Entered("deleteEvent", event.id, Undefined)
        /\ requests' = <<Request("DELETE", event.id, Undefined)>>
        /\ mockEvents' = IF ok THEN mockDelete(mockEvents, event.id) ELSE mockEvents
        /\ snackbar' = IF callApiThrows(ok)
                       THEN <<Notice(EVENT_DELETE_FAILED, "error")>>
                       ELSE <<>>
        /\ outcome' = IF callApiThrows(ok) THEN "failed" ELSE "running"
        /\ hpc' = IF callApiThrows(ok) THEN "idle" ELSE "deleteEvent"
        /\ UNCHANGED <<matchingRecurringEvents, loopIndex>>

\* lines 131-132
DeleteEventFinish ==
    /\ hpc = "deleteEvent"
    /\ \E ok \in BOOLEAN : FetchEvents(ok, <<Notice(EVENT_DELETED, "info")>>)
    /\ outcome' = "ok"
    /\ hpc' = "idle"
    /\ UNCHANGED <<mockEvents, onSaveCalls, call, matchingRecurringEvents, loopIndex,
                   mockAtCall, loadedAtCall, operations, generatorVars, dateVars>>

\* every operation of the hook that writes to the backend in more than one
\* step, and deleteEvent
NextOperations ==
    \/ Mount
    \/ SaveMultipleCall
    \/ SaveMultipleRequest
    \/ SaveMultipleFinish
    \/ DeleteEventCall
    \/ DeleteEventFinish
    \/ UpdateAllCall
    \/ UpdateAllRequest
    \/ UpdateAllFinish
    \/ DeleteAllCall
    \/ DeleteAllRequest
    \/ DeleteAllFinish

OperationsSpec == InitHook /\ [][NextOperations]_vars

TypeOK ==
    /\ pc \in {"call", "loop", "done"}
    /\ repeatInfo.type \in RepeatTypes
    /\ repeatInfo.interval \in Intervals

(***************************************************************************)
(* Reading an occurrence back, as the tests do with new Date(event.date)   *)
(***************************************************************************)
Digits == {"0", "1", "2", "3", "4", "5", "6", "7", "8", "9"}
DigitValue(c) ==
    CASE c = "0" -> 0 [] c = "1" -> 1 [] c = "2" -> 2 [] c = "3" -> 3 [] c = "4" -> 4
      [] c = "5" -> 5 [] c = "6" -> 6 [] c = "7" -> 7 [] c = "8" -> 8 [] c = "9" -> 9

\* s is of the form YYYY-MM-DD
IsIsoDate(s) ==
    /\ Len(s) = 10
    /\ s[5] = "-"
    /\ s[8] = "-"
    /\ \A i \in {1, 2, 3, 4, 6, 7, 9, 10} : s[i] \in Digits

OccYear(e) ==
    LET s == e.date
    IN  DigitValue(s[1]) * 1000 + DigitValue(s[2]) * 100 + DigitValue(s[3]) * 10
            + DigitValue(s[4])
OccMonth(e) == LET s == e.date IN DigitValue(s[6]) * 10 + DigitValue(s[7])
OccDay(e) == LET s == e.date IN DigitValue(s[9]) * 10 + DigitValue(s[10])
OccDate(e) == MakeDay(OccYear(e), OccMonth(e) - 1, OccDay(e))

\* the effective end date as the specification states it
EffEnd == Min(repeatEndDate, MakeDay(2025, 11, 31))

Last(s) == s[Len(s)]

(***************************************************************************)
(* Claims                                                                  *)
(***************************************************************************)

\* C1: every occurrence is dated within [startDate, min(repeatEndDate,
\* 2025-12-31)]; in particular none is dated after 2025-12-31.
C1_WithinRange ==
    \A i \in 1..Len(events) :
        /\ IsIsoDate(events[i].date)
        /\ startDate <= OccDate(events[i])
        /\ OccDate(events[i]) <= EffEnd
        /\ OccDate(events[i]) <= MakeDay(2025, 11, 31)

\* a run whose requested end lies beyond the horizon and whose last
\* occurrence falls on the horizon itself
C1_Witness ==
    /\ pc = "done"
    /\ repeatEndDate > MakeDay(2025, 11, 31)
    /\ Len(events) >= 2
    /\ OccDate(Last(events)) = MakeDay(2025, 11, 31)

\* C2: the returned sequence is strictly ascending by date (no duplicates).
C2_StrictlyAscending ==
    \A i \in 1..(Len(events) - 1) : OccDate(events[i]) < OccDate(events[i + 1])

C2_Witness ==
    /\ pc = "done"
    /\ repeatInfo.type = "monthly"
    /\ Len(events) >= 12
    /\ OccYear(events[1]) < OccYear(Last(events))

\* C3: for daily (weekly) with interval n and startDate <= effective end, the
\* result is exactly startDate + k*n (k*7*n) days, k = 0, 1, ..., up to and
\* including the effective end date.
C3_DailyWeeklyExact ==
    (pc = "done" /\ repeatInfo.type \in {"daily", "weekly"} /\ startDate <= EffEnd) =>
        LET step == IF repeatInfo.type = "daily" THEN repeatInfo.interval
                    ELSE 7 * repeatInfo.interval
            count == (EffEnd - startDate) \div step + 1
        IN  /\ Len(events) = count
            /\ \A k \in 1..count : OccDate(events[k]) = startDate + (k - 1) * step

\* a weekly run whose last step lands exactly on the effective end date
C3_Witness ==
    /\ pc = "done"
    /\ repeatInfo.type = "weekly"
    /\ repeatInfo.interval = 2
    /\ Len(events) = 3
    /\ OccDate(Last(events)) = EffEnd

\* C4: monthly from a 31st: every occurrence is the 31st of a month that has
\* 31 days (no substitute day in shorter months).
C4_Monthly31 ==
    (repeatInfo.type = "monthly" /\ getDate(startDate) = 31) =>
        \A i \in 1..Len(events) :
            /\ OccDay(events[i]) = 31
            /\ OccMonth(events[i]) \in {1, 3, 5, 7, 8, 10, 12}

\* a run from a 31st that passes over February and over 30-day months
C4_Witness ==
    /\ pc = "done"
    /\ repeatInfo.type = "monthly"
    /\ repeatInfo.interval = 1
    /\ getDate(startDate) = 31
    /\ getMonth(startDate) = 0
    /\ Len(events) = 7

Gregorian(y) == (y % 400 = 0) \/ (y % 100 # 0 /\ y % 4 = 0)

\* C5: yearly from Feb 29: every occurrence is Feb 29 of a leap year, and with
\* interval 1 every leap year whose Feb 29 is in range has an occurrence.
C5_YearlyFeb29 ==
    (repeatInfo.type = "yearly" /\ getMonth(startDate) = 1 /\ getDate(startDate) = 29) =>
        /\ \A i \in 1..Len(events) :
              /\ OccMonth(events[i]) = 2
              /\ OccDay(events[i]) = 29
              /\ Gregorian(OccYear(events[i]))
        /\ (pc = "done" /\ repeatInfo.interval = 1) =>
              \A y \in getFullYear(startDate)..2025 :
                  (Gregorian(y) /\ MakeDay(y, 1, 29) <= EffEnd) =>
                      \E i \in 1..Len(events) : OccDate(events[i]) = MakeDay(y, 1, 29)

\* a run that starts on a Feb 29, skips three years and emits the next Feb 29
C5_Witness ==
    /\ pc = "done"
    /\ repeatInfo.type = "yearly"
    /\ repeatInfo.interval = 1
    /\ getMonth(startDate) = 1
    /\ getDate(startDate) = 29
    /\ Len(candidates) >= 5
    /\ Len(events) = 2

\* C6 (as stated): for type none exactly one occurrence, dated startDate, is
\* returned for every startDate and every repeatEndDate.
C6_NoneAlwaysOne ==
    (pc = "done" /\ repeatInfo.type = "none") =>
        /\ Len(events) = 1
        /\ OccDate(events[1]) = startDate

\* C6 (amended): for type none the loop body runs at most once; when
\* startDate <= min(repeatEndDate, 2025-12-31) exactly one occurrence, dated
\* startDate, is returned, and otherwise the result is empty.
C6_NoneOneWhenInRange ==
    repeatInfo.type = "none" =>
        /\ Len(candidates) <= 1
        /\ Len(events) <= 1
        /\ pc = "done" =>
              IF startDate <= EffEnd
              THEN /\ Len(events) = 1
                   /\ IsIsoDate(events[1].date)
                   /\ OccDate(events[1]) = startDate
              ELSE events = <<>>

\* a none-type call whose end date would have allowed further iterations
C6_Witness ==
    /\ pc = "done"
    /\ repeatInfo.type = "none"
    /\ repeatEndDate > startDate + 1
    /\ Len(events) = 1

\* the k-th date (k = 0, 1, ...) of a monthly rule that clamps the day to the
\* length of the month reached
MonthlyClamped(k) ==
    LET m == getMonth(startDate) + k * repeatInfo.interval
        y == getFullYear(startDate)
    IN  MakeDay(y, m, Min(getDate(startDate), getDaysInMonth(y + m \div 12, (m % 12) + 1)))

\* C7: monthly from a day other than the 31st: every month reached by stepping
\* interval months gets exactly one occurrence, on min(d, days in that month).
C7_MonthlyClampedDay ==
    (pc = "done" /\ repeatInfo.type = "monthly" /\ getDate(startDate) # 31
        /\ startDate <= EffEnd) =>
        LET count == Cardinality({k \in 0..((EffEnd - startDate) \div 28) :
                                     MonthlyClamped(k) <= EffEnd})
        IN  /\ Len(events) = count
            /\ \A i \in 1..count : OccDate(events[i]) = MonthlyClamped(i - 1)

\* C8: every occurrence pushed is the base event with only the date replaced
\* (no field added), its date is the running candidate date written
\* YYYY-MM-DD with two-digit month and day, and earlier occurrences stay.
C8_OccurrenceFrame ==
    [][events' # events =>
        /\ Len(events') = Len(events) + 1
        /\ SubSeq(events', 1, Len(events)) = events
        /\ LET e == events'[Len(events')]
           IN  /\ DOMAIN e = DOMAIN baseEvent
               /\ \A f \in DOMAIN baseEvent \ {"date"} : e[f] = baseEvent[f]
               /\ IsIsoDate(e.date)
               /\ OccYear(e) = getFullYear(currentDate)
               /\ OccMonth(e) = getMonth(currentDate) + 1
               /\ OccDay(e) = getDate(currentDate)]_vars

\* an occurrence whose month and day both need a leading zero and whose date
\* differs from the template's
C8_Witness ==
    /\ pc = "done"
    /\ Len(events) >= 2
    /\ events[2].date[6] = "0"
    /\ events[2].date[9] = "0"
    /\ events[2].date # baseEvent.date
    /\ baseEvent.notificationTime = 60

\* C9: when startDate is later than min(repeatEndDate, 2025-12-31) the result
\* is empty, whatever the repeat type and interval; the call completes.
C9_EmptyWhenStartAfterEnd ==
    startDate > EffEnd =>
        /\ events = <<>>
        /\ candidates = <<>>
        /\ pc \in {"call", "loop", "done"}

\* a monthly call that starts after the horizon although the requested end
\* date is later than the start
C9_Witness ==
    /\ pc = "done"
    /\ repeatInfo.type = "monthly"
    /\ startDate > MakeDay(2025, 11, 31)
    /\ repeatEndDate > startDate
    /\ events = <<>>

\* C10: the call terminates; the running date strictly increases from one
\* loop iteration to the next, and the number of iterations is at most the
\* number of days from startDate to the effective end date plus one.
C10_Terminates ==
    /\ (pc = "loop") ~> (pc = "done")
    /\ [][(pc = "loop" /\ pc' = "loop") => currentDate' > currentDate]_vars
    /\ [](Len(candidates) <= IF startDate <= EffEnd THEN EffEnd - startDate + 1 ELSE 0)

\* a daily run that uses the whole iteration budget
C10_Witness ==
    /\ pc = "done"
    /\ repeatInfo.type = "daily"
    /\ Len(candidates) >= 3
    /\ Len(candidates) = EffEnd - startDate + 1

(***************************************************************************)
(* Claims about the date primitives                                        *)
(***************************************************************************)

\* C11: isLeapYear(y) follows the Gregorian rule in precedence order: true
\* when y is divisible by 400, otherwise false when divisible by 100,
\* otherwise true when divisible by 4, otherwise false; 2000 and 2004 are
\* leap years, 1900 and 2001 are not.
C11_LeapYearRule ==
    dpc = "isLeapYear" =>
        /\ result = (IF argYear % 400 = 0 THEN TRUE
                     ELSE IF argYear % 100 = 0 THEN FALSE
                     ELSE IF argYear % 4 = 0 THEN TRUE
                     ELSE FALSE)
        /\ argYear \in {2000, 2004} => result = TRUE
        /\ argYear \in {1900, 2001} => result = FALSE

\* a year divisible by 100 and not by 400 has been judged
C11_Witness ==
    /\ dpc = "isLeapYear"
    /\ argYear = 1900
    /\ result = FALSE

\* the length of month m (1-based) of year y in the Gregorian calendar
MonthLength(y, m) ==
    CASE m \in {1, 3, 5, 7, 8, 10, 12} -> 31
      [] m \in {4, 6, 9, 11} -> 30
      [] OTHER -> IF Gregorian(y) THEN 29 ELSE 28

\* C12: for a date (y, m, d) and a count n >= 0, addMonths returns a date in
\* the month exactly n months after (y, m), on day min(d, length of that
\* month): never a day of the month after it.  Jan 31 + 1 is Feb 28 (Feb 29
\* in a leap year), Mar 31 + 1 is Apr 30.
C12_AddMonthsClamped ==
    (dpc = "addMonths" /\ argCount >= 0) =>
        LET total == getFullYear(argDate) * 12 + getMonth(argDate) + argCount
            ty == total \div 12
            tm == total % 12
        IN  /\ getFullYear(result) = ty
            /\ getMonth(result) = tm
            /\ getDate(result) = Min(getDate(argDate), MonthLength(ty, tm + 1))
            /\ (argDate = MakeDay(2023, 0, 31) /\ argCount = 1) =>
                   result = MakeDay(2023, 1, 28)
            /\ (argDate = MakeDay(2024, 0, 31) /\ argCount = 1) =>
                   result = MakeDay(2024, 1, 29)
            /\ (argDate = MakeDay(2023, 2, 31) /\ argCount = 1) =>
                   result = MakeDay(2023, 3, 30)

\* a 31st moved into a February of 29 days
C12_Witness ==
    /\ dpc = "addMonths"
    /\ argDate = MakeDay(2024, 0, 31)
    /\ argCount = 1
    /\ result = MakeDay(2024, 1, 29)

\* C13: addYears returns the same month and day in year y + n, except that
\* Feb 29 moved to a year that is not a leap year becomes Feb 28 of that year
\* (never Mar 1); Feb 29 moved to a leap year stays Feb 29, and Feb 28 stays
\* Feb 28 even when the target year is a leap year.
C13_AddYearsFeb29 ==
    dpc = "addYears" =>
        LET ty == getFullYear(argDate) + argCount
            m == getMonth(argDate)
            d == getDate(argDate)
        IN  /\ getFullYear(result) = ty
            /\ getMonth(result) = m
            /\ getDate(result) = IF m = 1 /\ d = 29 /\ ~Gregorian(ty) THEN 28 ELSE d
            /\ (argDate = MakeDay(2023, 1, 28) /\ argCount = 1) =>
                   result = MakeDay(2024, 1, 28)

\* Feb 29 moved to a year that is not a leap year
C13_Witness ==
    /\ dpc = "addYears"
    /\ argDate = MakeDay(2024, 1, 29)
    /\ argCount = 1
    /\ result = MakeDay(2025, 1, 28)

\* the calendar date n >= 0 days after day d of month m (1-based) of year y,
\* counted month by month with the Gregorian month lengths
RECURSIVE CalendarAfter(_, _, _, _)
CalendarAfter(y, m, d, n) ==
    IF d + n <= MonthLength(y, m) THEN <<y, m, d + n>>
    ELSE IF m = 12 THEN CalendarAfter(y + 1, 1, 1, n - (MonthLength(y, m) - d) - 1)
    ELSE CalendarAfter(y, m + 1, 1, n - (MonthLength(y, m) - d) - 1)

\* C14: for n >= 0, addDays(d, n) is the calendar date exactly n days after
\* d, rolling over the ends of months (with the right month length, leap
\* Februaries included) and of years; the input date is left unchanged; and
\* addDays(addDays(d, a), b) = addDays(d, a + b).
C14_AddDaysExact ==
    /\ [](  (dpc = "addDays" /\ argCount >= 0) =>
               /\ getTime(result) = getTime(argDate) + argCount
               /\ <<getFullYear(result), getMonth(result) + 1, getDate(result)>>
                      = CalendarAfter(getFullYear(argDate), getMonth(argDate) + 1,
                                      getDate(argDate), argCount)
               /\ \A b \in 0..MaxCount :
                      InCalendar(addDays(argDate, argCount + b)) =>
                          addDays(result, b) = addDays(argDate, argCount + b) )
    /\ [][argDate' = argDate]_vars

\* ten days added across the end of a year
C14_Witness ==
    /\ dpc = "addDays"
    /\ argDate = MakeDay(2023, 11, 25)
    /\ argCount = 10
    /\ result = MakeDay(2024, 0, 4)

\* C15: getDaysInMonth(year, month), month 1-based, is 31 for months 1, 3, 5,
\* 7, 8, 10 and 12, 30 for months 4, 6, 9 and 11, and for month 2 it is 29
\* exactly when isLeapYear(year) holds and 28 otherwise.
C15_DaysInMonth ==
    dpc = "getDaysInMonth" =>
        /\ argMonth \in {1, 3, 5, 7, 8, 10, 12} => result = 31
        /\ argMonth \in {4, 6, 9, 11} => result = 30
        /\ argMonth = 2 => result = IF isLeapYear(argYear) THEN 29 ELSE 28

\* the February of a leap year has been measured
C15_Witness ==
    /\ dpc = "getDaysInMonth"
    /\ argYear = 2024
    /\ argMonth = 2
    /\ result = 29

\* C16: for every date d and every integer n, addWeeks(d, n) equals
\* addDays(d, 7 * n).
C16_AddWeeksIsSevenDays ==
    dpc = "addWeeks" => result = addDays(argDate, 7 * argCount)

\* weeks taken off a date, back into the month before
C16_Witness ==
    /\ dpc = "addWeeks"
    /\ argCount < 0
    /\ getMonth(result) # getMonth(argDate)
    /\ getTime(result) = getTime(argDate) + 7 * argCount

(***************************************************************************)
(* Claims about the generator's effect on its arguments                    *)
(***************************************************************************)

\* C17: generateRecurringEvents does not modify its inputs: from the call to
\* the return startDate, repeatEndDate, repeatInfo and baseEvent keep their
\* values, while the running date (a copy of startDate) advances and the
\* array (built from empty) receives records of its own.
C17_InputsReadOnly ==
    [][pc # "call" =>
          /\ startDate' = startDate
          /\ repeatEndDate' = repeatEndDate
          /\ repeatInfo' = repeatInfo
          /\ baseEvent' = baseEvent]_vars

\* a call has returned several records and its running date has moved away
\* from the start date
C17_Witness ==
    /\ pc = "done"
    /\ Len(events) >= 2
    /\ currentDate > startDate
    /\ events[1].date = formatDate(startDate)
    /\ events[2].date # baseEvent.date

(***************************************************************************)
(* Claims about the operations of the hook                                 *)
(***************************************************************************)

\* event e belongs to the recurring group of the reference event
InGroupOf(e, reference) ==
    /\ e.title = reference.title
    /\ e.startTime = reference.startTime
    /\ e.endTime = reference.endTime
    /\ e.repeat.type = reference.repeat.type
    /\ e.repeat.type # "none"

Sent(method) == SelectSeq(requests, LAMBDA r : r.method = method)
Shown(message) == SelectSeq(snackbar, LAMBDA n : n.message = message)

\* '모든 반복 일정이 삭제되었습니다.'
AllDeletedText ==
    <<47784, 46304, 32, 48152, 48373, 32, 51068, 51221, 51060, 32, 49325,
      51228, 46104, 50632, 49845, 45768, 45796, 46>>

\* C18: deleteAllRecurringEvents(referenceEvent) sends a DELETE for exactly
\* the loaded events whose title, startTime, endTime and repeat.type equal
\* the reference's and whose repeat.type is not 'none' (each once, none for
\* any other event: the events of other groups and the events that do not
\* recur stay on the backend); once all the deletions have succeeded the
\* list is fetched again (one GET, after the last DELETE, whose answer
\* becomes the loaded list) and the success notice '모든 반복 일정이
\* 삭제되었습니다.' is enqueued once, and not before.
C18_DeleteAllGroupOnly ==
    call.op = "deleteAll" =>
        LET targets == {e \in Range(loadedAtCall) : InGroupOf(e, call.event)}
            deletes == Sent("DELETE")
            success == Shown(AllDeletedText)
        IN  /\ \A i \in DOMAIN deletes : \E e \in targets : deletes[i].id = e.id
            /\ \A i, j \in DOMAIN deletes : deletes[i].id = deletes[j].id => i = j
            /\ \A e \in Range(mockAtCall) :
                   (\A t \in targets : t.id # e.id) => e \in Range(mockEvents)
            /\ outcome = "ok" =>
                   /\ {deletes[i].id : i \in DOMAIN deletes} = {e.id : e \in targets}
                   /\ \A t \in targets, e \in Range(mockEvents) : e.id # t.id
                   /\ Len(Sent("GET")) = 1
                   /\ requests[Len(requests)].method = "GET"
                   /\ Len(Shown(LOADING_FAILED)) = 0 => loadedEvents = mockEvents
                   /\ Len(success) = 1
                   /\ success[1].variant = "success"
            /\ outcome # "ok" => Len(success) = 0

\* a group of two has been deleted from a backend that also holds an event
\* of the same title and times that does not recur, and a daily one
C18_Witness ==
    /\ call.op = "deleteAll"
    /\ outcome = "ok"
    /\ Len(Sent("DELETE")) = 2
    /\ Len(mockAtCall) = 4
    /\ loadedEvents = mockEvents
    /\ mockEvents = <<createSingleEvent("2", "2025-10-16"),
                      createDailyStandup("4", "2025-10-15")>>

\* event e carries the editable fields of the modified event
CarriesUpdates(e, modified) ==
    /\ e.title = modified.title
    /\ e.description = modified.description
    /\ e.location = modified.location
    /\ e.category = modified.category
    /\ e.notificationTime = modified.notificationTime
    /\ e.startTime = modified.startTime
    /\ e.endTime = modified.endTime

\* event e has the id, the date and the repeat info of event g
KeepsOwn(e, g) ==
    /\ e.id = g.id
    /\ e.date = g.date
    /\ e.repeat = g.repeat

\* C19: updateAllRecurringEvents(modifiedEvent, originalEvent) sends, for
\* every event of the group of originalEvent, a PUT to that event's id whose
\* body has modifiedEvent's title, description, location, category,
\* notificationTime, startTime and endTime and the event's own id, date and
\* repeat info; when the operation has gone through, every event of the
\* group is stored so; the number of stored events never changes and the
\* events outside the group are stored as they were.
C19_UpdateAllGroup ==
    (call.op = "updateAll" /\ call.originalEvent # Undefined) =>
        LET group == {e \in Range(loadedAtCall) : InGroupOf(e, call.originalEvent)}
            puts == Sent("PUT")
        IN  /\ Len(mockEvents) = Len(mockAtCall)
            /\ \A i \in DOMAIN mockAtCall :
                   (\A g \in group : g.id # mockAtCall[i].id) =>
                       mockEvents[i] = mockAtCall[i]
            /\ \A i \in DOMAIN puts :
                   \E g \in group :
                       /\ puts[i].id = g.id
                       /\ CarriesUpdates(puts[i].body, call.event)
                       /\ KeepsOwn(puts[i].body, g)
            /\ outcome = "ok" =>
                   /\ Len(puts) = Cardinality(group)
                   /\ {puts[i].id : i \in DOMAIN puts} = {g.id : g \in group}
                   /\ \A i \in DOMAIN mockEvents, g \in group :
                          mockEvents[i].id = g.id =>
                              /\ CarriesUpdates(mockEvents[i], call.event)
                              /\ KeepsOwn(mockEvents[i], g)
                   /\ loadedAtCall = mockAtCall =>
                          \A i \in DOMAIN mockEvents : KeepsOwn(mockEvents[i], mockAtCall[i])
                   /\ Len(Shown(LOADING_FAILED)) = 0 => loadedEvents = mockEvents

\* a group of two has been updated with an event edited in every field; the
\* monthly event of the same title and the weekly one at another time are
\* stored as before
C19_Witness ==
    /\ call.op = "updateAll"
    /\ call.originalEvent = createMockEvent("1", "2025-10-15")
    /\ call.event.date = "2025-11-03"
    /\ outcome = "ok"
    /\ Len(mockEvents) = 4
    /\ mockEvents[1].title = "edited meeting"
    /\ mockEvents[4].title = "edited meeting"
    /\ mockEvents[4].date = "2025-10-22"
    /\ mockEvents[4].repeat = [type |-> "weekly", interval |-> 2]
    /\ mockEvents[2] = mockAtCall[2]
    /\ mockEvents[3] = mockAtCall[3]
    /\ mockEvents[2].repeat.type = "monthly"

\* C20: updateSingleRecurringEvent(e) sends exactly one PUT, to e.id, whose
\* body is e with repeat.type 'none' and the other repeat fields kept; once
\* it has succeeded the stored event belongs to no recurring group, and every
\* other stored event (those of its former group among them) is as it was,
\* title and repeat.type included.
C20_UpdateSingleDetaches ==
    call.op = "updateSingle" =>
        LET e == call.event
            puts == Sent("PUT")
        IN  /\ Len(puts) = 1
            /\ Len(Sent("DELETE")) = 0
            /\ puts[1].id = e.id
            /\ DOMAIN puts[1].body = DOMAIN e
            /\ \A f \in DOMAIN e \ {"repeat"} : puts[1].body[f] = e[f]
            /\ DOMAIN puts[1].body.repeat = DOMAIN e.repeat
            /\ puts[1].body.repeat.type = "none"
            /\ \A f \in DOMAIN e.repeat \ {"type"} : puts[1].body.repeat[f] = e.repeat[f]
            /\ Len(mockEvents) = Len(mockAtCall)
            /\ \A i \in DOMAIN mockAtCall :
                   mockAtCall[i].id # e.id =>
                       /\ mockEvents[i] = mockAtCall[i]
                       /\ mockEvents[i].title = mockAtCall[i].title
                       /\ mockEvents[i].repeat.type = mockAtCall[i].repeat.type
            /\ outcome \in {"running", "ok"} =>
                   \A i \in DOMAIN mockEvents :
                       mockEvents[i].id = e.id =>
                           /\ mockEvents[i].title = e.title
                           /\ mockEvents[i].repeat.type = "none"
                           /\ \A ref \in Range(mockEvents) \cup Range(mockAtCall) :
                                  ~InGroupOf(mockEvents[i], ref)
            /\ (outcome = "ok" /\ Len(Shown(LOADING_FAILED)) = 0) =>
                   loadedEvents = mockEvents
            /\ outcome = "failed" => mockEvents = mockAtCall

\* the first event of a group of three has been renamed and detached; the
\* other two are still weekly under their title
C20_Witness ==
    /\ call.op = "updateSingle"
    /\ call.event = [createMockEvent("1", "2025-10-15") EXCEPT !.title = "edited single"]
    /\ outcome = "ok"
    /\ loadedEvents = mockEvents
    /\ mockEvents[1].title = "edited single"
    /\ mockEvents[1].repeat = [type |-> "none", interval |-> 1]
    /\ mockEvents[2] = createMockEvent("2", "2025-10-22")
    /\ mockEvents[3] = createMockEvent("3", "2025-10-29")

\* the hook has finished the call of op
Finished(op) == call.op = op /\ hpc = "idle" /\ outcome \in {"ok", "failed"}

\* C21: a finished call of saveMultipleEvents has sent its POSTs in the order
\* of the list, each after the one before it was answered OK, and has shown
\* exactly one notice: the success notice when every POST and the refresh
\* succeeded, the notice of the failed save otherwise
C21_SaveMultipleOneNotice ==
    Finished("saveMultiple") =>
        /\ \A i \in 1..Len(Sent("POST")) : Sent("POST")[i].body = call.event[i]
        /\ Len(snackbar) = 1
        /\ snackbar[1] \in { Notice(MULTIPLE_EVENTS_ADDED, "success"),
                             Notice(MULTIPLE_EVENTS_SAVE_FAILED, "error") }
        /\ snackbar[1].variant = "success" =>
               /\ Len(Sent("POST")) = Len(call.event)
               /\ loadedEvents = mockEvents

\* deleteEvent has finished and the backend, which held the event, still
\* holds everything it held: the DELETE was answered with an error status
DeleteRefused ==
    /\ call.op = "deleteEvent"
    /\ hpc = "idle"
    /\ findIndex(mockAtCall, call.event) # 0
    /\ mockEvents = mockAtCall

\* C22: when the DELETE of deleteEvent fails, the notice of the failed delete
\* is the only one shown, no GET is sent and the list of the hook is the one
\* it had before the call
C22_DeleteFailure ==
    (DeleteRefused \/ (call.op = "deleteEvent" /\ outcome = "failed")) =>
        /\ snackbar = <<Notice(EVENT_DELETE_FAILED, "error")>>
        /\ Shown(EVENT_DELETED) = <<>>
        /\ \A i \in DOMAIN snackbar : snackbar[i].variant \notin {"success", "info"}
        /\ requests = <<Request("DELETE", call.event, Undefined)>>
        /\ Sent("GET") = <<>>
        /\ loadedEvents = loadedAtCall
        /\ outcome = "failed"

C22_Witness ==
    /\ DeleteRefused
    /\ outcome = "failed"
    /\ Len(loadedEvents) = 4
    /\ snackbar = <<Notice(EVENT_DELETE_FAILED, "error")>>

\* the backend after it has served the requests rs, in order, starting from list
RECURSIVE Served(_, _)
Served(list, rs) ==
    IF rs = <<>> THEN list
    ELSE LET r == Last(rs)
             before == Served(list, SubSeq(rs, 1, Len(rs) - 1))
         IN  CASE r.method = "POST" -> mockPost(before, r.body)
               [] r.method = "PUT" -> mockPut(before, r.id, r.body)
               [] r.method = "DELETE" -> mockDelete(before, r.id)
               [] OTHER -> before

BatchOps == {"saveMultiple", "updateAll", "deleteAll"}

\* the notice of a failed batch
BatchFailed(op) ==
    CASE op = "saveMultiple" -> MULTIPLE_EVENTS_SAVE_FAILED
      [] op = "updateAll" -> RECURRING_EVENT_UPDATE_FAILED
      [] op = "deleteAll" -> RECURRING_EVENT_DELETE_FAILED

\* the request the batch sends for its i-th element
BatchRequest(op, i) ==
    CASE op = "saveMultiple" -> Request("POST", "", call.event[i])
      [] op = "updateAll" ->
            Request("PUT", matchingRecurringEvents[i].id,
                    applyUpdatesToGroupEvent(matchingRecurringEvents[i], call.event))
      [] op = "deleteAll" -> Request("DELETE", matchingRecurringEvents[i].id, Undefined)

\* C29: when the k-th request of a batch operation fails, the batch is over:
\* the requests sent are those of its first k elements and nothing else (no
\* later request, no GET), the backend has served the k-1 requests before the
\* failed one, the list of the hook is the one it had before the call, onSave
\* has not been called and one error notice, that of the operation, is shown
C29_BatchNotAtomic ==
    (call.op \in BatchOps /\ outcome = "failed") =>
        LET k == Len(requests)
        IN  /\ hpc = "idle"
            /\ k >= 1
            /\ loopIndex = k
            /\ \A i \in 1..k : requests[i] = BatchRequest(call.op, i)
            /\ mockEvents = Served(mockAtCall, SubSeq(requests, 1, k - 1))
            /\ loadedEvents = loadedAtCall
            /\ onSaveCalls = 0
            /\ snackbar = <<Notice(BatchFailed(call.op), "error")>>

\* the third POST of a batch failed: two events were added to the backend and
\* the hook does not know of them
C29_Witness ==
    /\ call.op = "saveMultiple"
    /\ outcome = "failed"
    /\ Len(requests) = 3
    /\ Len(mockEvents) = Len(mockAtCall) + 2
    /\ loadedEvents # mockEvents
    /\ loadedEvents = mockAtCall

\* the month a date lies in, counted from the year 0
MonthCount(t) == getFullYear(t) * 12 + getMonth(t)

\* C23: under a monthly repeat every candidate visited, the running date
\* included, lies k * interval months after the start month, k being the
\* number of steps taken, and the month of every occurrence is a multiple of
\* the interval away from the start month
C23_MonthlyStepExact ==
    (repeatInfo.type = "monthly" /\ pc # "call") =>
        /\ \A k \in DOMAIN candidates :
               MonthCount(candidates[k])
                   = MonthCount(startDate) + (k - 1) * repeatInfo.interval
        /\ MonthCount(currentDate)
               = MonthCount(startDate) + Len(candidates) * repeatInfo.interval
        /\ \A i \in DOMAIN events :
               (OccYear(events[i]) * 12 + OccMonth(events[i]) - 1 - MonthCount(startDate))
                   % repeatInfo.interval = 0

\* C24: under a yearly repeat the candidate after k steps, the running date
\* included, lies in the year of the start plus k * interval, in the month of
\* the start, on the start day or on the last day of that month when the
\* month is shorter that year; every occurrence has the month and the day of
\* the start, in a year a multiple of the interval after it
C24_YearlyStepExact ==
    (repeatInfo.type = "yearly" /\ pc # "call") =>
        LET visited == Append(candidates, currentDate)
        IN  /\ \A k \in DOMAIN visited :
                   LET y == getFullYear(startDate) + (k - 1) * repeatInfo.interval
                   IN  /\ getFullYear(visited[k]) = y
                       /\ getMonth(visited[k]) = getMonth(startDate)
                       /\ getDate(visited[k])
                              = Min(getDate(startDate),
                                    MonthLength(y, getMonth(startDate) + 1))
            /\ \A i \in DOMAIN events :
                   /\ OccMonth(events[i]) = getMonth(startDate) + 1
                   /\ OccDay(events[i]) = getDate(startDate)
                   /\ OccYear(events[i]) >= getFullYear(startDate)
                   /\ (OccYear(events[i]) - getFullYear(startDate)) % repeatInfo.interval = 0

\* from Feb 29 2020: the candidates of 2021..2023 are clamped to Feb 28, that
\* of 2024 is Feb 29 again and is the second occurrence
C24_Witness ==
    /\ pc = "done"
    /\ repeatInfo.type = "yearly"
    /\ repeatInfo.interval = 1
    /\ startDate = MakeDay(2020, 1, 29)
    /\ Len(candidates) >= 5
    /\ candidates[2] = MakeDay(2021, 1, 28)
    /\ candidates[4] = MakeDay(2023, 1, 28)
    /\ candidates[5] = MakeDay(2024, 1, 29)
    /\ Len(events) = 2
    /\ OccDate(events[2]) = MakeDay(2024, 1, 29)

\* C27: under a monthly repeat every candidate visited, the running date
\* included, and every occurrence emitted has the day of the month of the
\* start: the re-pin of the monthly step never lowers the day
C27_MonthlyDayKept ==
    (repeatInfo.type = "monthly" /\ pc # "call") =>
        /\ \A k \in DOMAIN candidates : getDate(candidates[k]) = getDate(startDate)
        /\ getDate(currentDate) = getDate(startDate)
        /\ \A i \in DOMAIN events : OccDay(events[i]) = getDate(startDate)
        /\ initialDay = getDate(startDate)

\* from Jan 30 2021 the step over February lands on Mar 30
C27_Witness ==
    /\ pc = "done"
    /\ repeatInfo.type = "monthly"
    /\ repeatInfo.interval = 1
    /\ startDate = MakeDay(2021, 0, 30)
    /\ Len(candidates) >= 3
    /\ candidates[2] = MakeDay(2021, 2, 30)
    /\ candidates[3] = MakeDay(2021, 3, 30)
    /\ Len(events) >= 3

(***************************************************************************)
(* The earlier variant of generateRecurringEvents, everything written in   *)
(* the body of its loop                                                    *)
(***************************************************************************)
\* new Date('2025-12-31')
maxDate == MakeDay(2025, 11, 31)

\* the test on the year written in the loop
isLeapYearInline(year) == (year % 4 = 0 /\ year % 100 # 0) \/ year % 400 = 0

\* shouldAddEvent at the end of the special cases
shouldAddEvent(info, cur, initDay, initMonth) ==
    IF info.type = "monthly" /\ initDay = 31
    THEN ~(getDaysInMonth(getFullYear(cur), getMonth(cur) + 1) < 31)
    ELSE IF info.type = "yearly" /\ initMonth = 1 /\ initDay = 29
         THEN isLeapYearInline(getFullYear(cur))
         ELSE TRUE

\* the if-else chain that moves the running date; the last else breaks
stepBreaks(info) == info.type \notin {"daily", "weekly", "monthly", "yearly"}
stepped(info, cur, initDay, initMonth) ==
    IF info.type = "daily" THEN setDate(cur, getDate(cur) + info.interval)
    ELSE IF info.type = "weekly" THEN setDate(cur, getDate(cur) + info.interval * 7)
    ELSE IF info.type = "monthly"
         THEN LET moved == setMonth(cur, getMonth(cur) + info.interval)
                  daysInNewMonth == getDaysInMonth(getFullYear(moved), getMonth(moved) + 1)
              IN  setDate(moved, Min(initDay, daysInNewMonth))
    ELSE IF info.type = "yearly"
         THEN LET moved == setFullYear(cur, getFullYear(cur) + info.interval)
                  daysInNewMonth == getDaysInMonth(getFullYear(moved), initMonth + 1)
              IN  setDate(setMonth(moved, initMonth), Min(initDay, daysInNewMonth))
    ELSE cur

\* the while loop, from the running date cur with the occurrences acc
RECURSIVE earlierLoop(_, _, _, _, _, _, _)
earlierLoop(base, info, cur, end, initDay, initMonth, acc) ==
    IF ~(getTime(cur) <= getTime(end)) THEN acc
    ELSE LET pushed == IF shouldAddEvent(info, cur, initDay, initMonth)
                       THEN Append(acc, Spread(base, [date |-> formatDate(cur)]))
                       ELSE acc
         IN  IF stepBreaks(info) THEN pushed
             ELSE earlierLoop(base, info, stepped(info, cur, initDay, initMonth), end,
                              initDay, initMonth, pushed)

generateRecurringEventsEarlier(base, info, start, end) ==
    LET effectiveEnd == IF getTime(end) > getTime(maxDate) THEN maxDate ELSE end
    IN  earlierLoop(base, info, start, effectiveEnd, getDate(start), getMonth(start), <<>>)

\* C26: what generateRecurringEvents returns is what its earlier variant
\* returns on the same arguments, for the types none, daily, weekly, monthly
\* and yearly
C26_VariantsAgree ==
    pc = "done" =>
        events = generateRecurringEventsEarlier(baseEvent, repeatInfo, startDate,
                                                repeatEndDate)

\* a yearly series from Feb 29, where both variants drop the candidates of
\* the common years
C26_Witness ==
    /\ pc = "done"
    /\ repeatInfo.type = "yearly"
    /\ getMonth(startDate) = 1
    /\ getDate(startDate) = 29
    /\ Len(candidates) >= 5
    /\ Len(events) = 2
    /\ events = generateRecurringEventsEarlier(baseEvent, repeatInfo, startDate,
                                               repeatEndDate)

\* C25: with a repeat type outside none, daily, weekly, monthly and yearly,
\* a pass of the loop either ends the loop or advances the running date
C25_UnknownTypeEnds ==
    [][(repeatInfo.type \notin RepeatTypes /\ pc = "loop") =>
           (pc' = "done" \/ currentDate' > currentDate)]_vars

C30_LeapTestsAgree ==
    dpc = "isLeapYear" =>
        /\ result = isLeapYearLocal(argYear)
        /\ result = isLeapYearInline(argYear)
        /\ result \in BOOLEAN

\* a century that is not a leap year, where a test on year % 4 alone differs
C30_Witness ==
    /\ dpc = "isLeapYear"
    /\ argYear = 2100
    /\ result = FALSE
    /\ ~isLeapYearLocal(argYear)
    /\ ~isLeapYearInline(argYear)

====
